---- MODULE Spec2Model ----
(***************************************************************************)
(* Model of plugins/multipleplaylists/src/index.ts: the "Add to Multiple   *)
(* Playlists" plugin.  The host (redux store, Playlist API, MediaItem       *)
(* resolution, context menu) is the environment; every host call outcome   *)
(* is a nondeterministic choice.  Async functions are split at the awaits  *)
(* after which they touch state shared with other handlers.                *)
(***************************************************************************)
EXTENDS Integers, Sequences, FiniteSets, TLC

\* ---------------------------------------------------------------- bounds
MaxStore == 3      \* entries in the redux playlist mapping / in a Playlist API result
MaxFlows == 2      \* click workflows in flight (timers + resolutions + modals)
MaxPending == 1    \* suspended populatePlaylistList calls; suspended bulk-add runs
MaxToasts == 1     \* notifications on screen at once

\* ------------------------------------------------------- JavaScript values
Undefined == "undefined"
Null == "null"
\* !x for the identifiers the code tests
Falsy(x) == x \in {Undefined, Null}

\* the media items a context menu can be opened on
MediaItems == {[id |-> "s1", contentType |-> "track"], [id |-> "s2", contentType |-> "video"]}
UserIds == {Undefined, Null, "u1"}
CreatorIds == {Undefined, "u1", "u2"}

\* a null value stored under a playlist key
NullEntry == [type |-> Null, creator |-> Undefined]
Entries == {NullEntry} \cup [type : {"USER", "EDITORIAL"}, creator : CreatorIds]

\* sequences over S of length at most n
SeqUpTo(S, n) == UNION {[1..k -> S] : k \in 0..n}

\* the parts of the store state the plugin reads: state.user?.meta?.id, and
\* state.content?.playlists as a mapping key -> entry in key order (the entry
\* under key i has uuid i); hasContent is FALSE when state.content is absent
Snapshots ==
    [userId : UserIds, hasContent : {TRUE}, playlists : SeqUpTo(Entries, MaxStore)]
        \cup [userId : UserIds, hasContent : {FALSE}, playlists : {<<>>}]

VARIABLES
    state,                   \* redux.store.getState(), owned by the host
    contextMenuSongId,       \* closure variable of setupContextMenuIntegration
    contextMenuContentType,  \* closure variable of setupContextMenuIntegration
    menuOpen,                \* the host context menu shows the custom button
    timers,                  \* pending setTimeout(..., 100) callbacks, FIFO
    resolving,               \* timer callbacks awaiting MediaItem.fromId / song details
    overlays,                \* modal overlays under document.body, in document order
    populating,              \* populatePlaylistList calls awaiting the Playlist API
    runs,                    \* addToSelectedPlaylists calls awaiting song.title()
    toasts,                  \* notification elements under document.body
    clickHandled,            \* a click was handled since the last successful capture
    lastRun                  \* observation of the last finished addToSelectedPlaylists call

vars == <<state, contextMenuSongId, contextMenuContentType, menuOpen, timers, resolving,
          overlays, populating, runs, toasts, clickHandled, lastRun>>

\* ------------------------------------------------------------ notifications
\* showNotification: the element appended to document.body
ShowNotification(message, type) == [message |-> message, type |-> type]

\* notification texts; the bulk-add summary carries its two counts
Plain(text) == [text |-> text, ok |-> 0, failed |-> 0]
Summary(successCount, errorCount) ==
    IF successCount > 0
    THEN [text |-> "added to playlists (failed)", ok |-> successCount, failed |-> errorCount]
    ELSE Plain("Failed to add to playlists")

NoRun == [selected |-> <<>>, own |-> <<>>, issued |-> <<>>, threw |-> {},
          successCount |-> 0, errorCount |-> 0, notes |-> <<>>, title |-> "none",
          done |-> FALSE]

\* ------------------------------------------------------------ DOM helpers
\* the content of a #playlist-list element: a message paragraph, or one
\* checkbox per item (both empty: innerHTML is ''); via names the path that
\* wrote it
Container(text, items, via) == [text |-> text, items |-> items, checked |-> {}, via |-> via]
Blank == Container("", <<>>, "none")

NoPlaylistsFound == "No playlists found. Create some playlists first!"
UnableToLoad == "Unable to load your playlists. Please try again."
ErrorLoading == "Error loading playlists"

\* ------------------------------------------------- playlist source adapter
\* the keys of state.content?.playlists || {}
ObjectKeys(st) == IF st.hasContent THEN [i \in 1..Len(st.playlists) |-> i] ELSE <<>>

\* the ownership test without the unknown-user guard
IsCurrentUserPlaylistUnguarded(playlist, currentUserId) ==
    IF playlist = NullEntry \/ playlist.type # "USER" THEN FALSE
    ELSE playlist.creator = currentUserId

\* the filter callback: is this store entry a playlist of the current user
IsCurrentUserPlaylist(playlist, currentUserId) ==
    IF playlist = NullEntry \/ playlist.type # "USER" THEN FALSE
    ELSE IF Falsy(currentUserId) THEN FALSE
    ELSE playlist.creator = currentUserId

\* Object.values(playlists).filter(...): the keys of the entries kept, in key order
OwnedKeys(st) ==
    SelectSeq(ObjectKeys(st), LAMBDA k : IsCurrentUserPlaylist(st.playlists[k], st.userId))

\* populatePlaylistListFromRedux: the new content of the container it found
PopulatePlaylistListFromRedux(st, throws) ==
    IF throws THEN Container(ErrorLoading, <<>>, "redux")
    ELSE LET keys == ObjectKeys(st)
             currentUserId == st.userId
             playlistsArray == OwnedKeys(st)
         IN IF Len(keys) = 0 THEN Container(NoPlaylistsFound, <<>>, "redux")
            ELSE IF Len(keys) > 0 /\ Len(playlistsArray) = 0 /\ ~Falsy(currentUserId)
                 THEN Container(UnableToLoad, <<>>, "redux")
                 ELSE Container("", playlistsArray, "redux")

\* the snapshots the workflow specifications start from: an owner with a mixed
\* store, and an unknown user with a populated store
WorkflowSnapshots ==
    { [userId |-> "u1", hasContent |-> TRUE, playlists |-> [i \in 1..MaxStore |->
            [type |-> "USER", creator |-> IF i = MaxStore THEN "u2" ELSE "u1"]]],
      [userId |-> Undefined, hasContent |-> TRUE, playlists |-> [i \in 1..MaxStore |->
            [type |-> "USER", creator |-> "u2"]]] }

Init ==
    /\ state \in WorkflowSnapshots
    /\ contextMenuSongId = Null
    /\ contextMenuContentType = "track"
    /\ menuOpen = FALSE
    /\ timers = <<>>
    /\ resolving = <<>>
    /\ overlays = <<>>
    /\ populating = <<>>
    /\ runs = <<>>
    /\ toasts = <<>>
    /\ clickHandled = FALSE
    /\ lastRun = NoRun

\* --------------------------------------------------- context-menu integration
\* ContextMenu.onMediaItem handler.  kind is what the payload yields: "absent"
\* (mediaCollection is not an object), "empty" (iteration yields nothing),
\* "throws" (mediaItems() or the iteration throws before the first item), or
\* "item" (the first item yielded is mediaItem)
OnMediaItem(kind, mediaItem) ==
    /\ contextMenuSongId' = CASE kind = "item" -> mediaItem.id
                               [] kind = "throws" -> Null
                               [] OTHER -> contextMenuSongId
    /\ contextMenuContentType' =
            IF kind = "item" THEN mediaItem.contentType ELSE contextMenuContentType
    /\ clickHandled' = IF kind = "item" THEN FALSE ELSE clickHandled
    /\ menuOpen' = TRUE
    /\ UNCHANGED <<state, timers, resolving, overlays, populating, runs, toasts, lastRun>>

\* a payload that yields no item
NoItem == [id |-> Undefined, contentType |-> Undefined]

MenuOpened ==
    \/ \E mediaItem \in MediaItems : OnMediaItem("item", mediaItem)
    \/ \E kind \in {"absent", "empty", "throws"} : OnMediaItem(kind, NoItem)

Flows == Len(timers) + Len(resolving) + Len(overlays)
CanToast == Len(toasts) < MaxToasts

\* contextMenuButton.onClick, up to setTimeout: the menu is closed and the
\* callback is scheduled.  The timer entry records what the closure
\* variables held when the button was clicked (the callback itself captures
\* nothing and reads them again when it runs).
ButtonClick ==
    /\ menuOpen
    /\ Flows < MaxFlows
    /\ menuOpen' = FALSE
    /\ timers' = Append(timers, [sid |-> contextMenuSongId, ctype |-> contextMenuContentType])
    /\ UNCHANGED <<state, contextMenuSongId, contextMenuContentType, resolving, overlays,
                   populating, runs, toasts, clickHandled, lastRun>>

\* the setTimeout callback, up to the await of MediaItem.fromId
TimerFire ==
    /\ timers # <<>>
    /\ timers' = Tail(timers)
    /\ IF ~Falsy(contextMenuSongId)
       THEN /\ resolving' = Append(resolving,
                    [id |-> contextMenuSongId, contentType |-> contextMenuContentType])
            /\ UNCHANGED <<toasts, clickHandled>>
       ELSE /\ CanToast
            /\ toasts' = Append(toasts, ShowNotification(Plain("No song selected"), "error"))
            /\ clickHandled' = TRUE
            /\ UNCHANGED resolving
    /\ UNCHANGED <<state, contextMenuSongId, contextMenuContentType, menuOpen, overlays,
                   populating, runs, lastRun>>

\* ------------------------------------------------------------ selection modal
RemoveAt(seq, i) == [k \in 1..(Len(seq) - 1) |-> IF k < i THEN seq[k] ELSE seq[k + 1]]

\* an element identity carried by no overlay and no suspended populate call
FreshMid ==
    CHOOSE m \in 1..(Len(overlays) + Len(populating) + 1) :
        /\ \A k \in 1..Len(overlays) : overlays[k].mid # m
        /\ \A k \in 1..Len(populating) : populating[k] # m

\* document.querySelector('#playlist-list') followed by an innerHTML
\* assignment: the first overlay in document order gets the content
SetFirstContainer(ovs, content) ==
    IF ovs = <<>> THEN ovs ELSE [ovs EXCEPT ![1].list = content]

\* an innerHTML assignment to a container element held by reference (it may
\* have left the document by then)
SetContainerOf(ovs, mid, content) ==
    [k \in 1..Len(ovs) |-> IF ovs[k].mid = mid THEN [ovs[k] EXCEPT !.list = content] ELSE ovs[k]]

\* what the direct Playlist API result renders to: "array" of n playlists with
\* uuids 1..n, or "notArray" (reading .length throws into the outer catch)
RenderApiResult(result, n) ==
    CASE result = "notArray" -> Container(ErrorLoading, <<>>, "api")
      [] n = 0 -> Container(NoPlaylistsFound, <<>>, "api")
      [] OTHER -> Container("", [i \in 1..n |-> i], "api")

\* the modal heading: songTitle and songArtist as showPlaylistSelector computes them
SongTitle(song) == IF song.hasTitle THEN "Title" ELSE "Unknown Song"
SongArtist(artist) == IF artist = "named" THEN "Artist" ELSE "Unknown Artist"

\* showPlaylistSelector from its first statement to the listeners, with the
\* synchronous part of populatePlaylistList.  song.title() and the artist
\* accessors are awaited before anything is appended to the document.
\*   song.hasTitle  song.title is defined     title  outcome of song.title()
\*   artist  outcome of the artist lookup ("named", "unnamed", "throws")
\*   api     the Playlist method that exists, or "none"
ShowPlaylistSelector(song, title, artist, api, reduxThrows) ==
    IF song.hasTitle /\ title = "throws"
    THEN \* rejected before the modal is built; caught by the click callback
         /\ CanToast
         /\ toasts' = Append(toasts,
                ShowNotification(Plain("Error loading song information"), "error"))
         /\ UNCHANGED <<overlays, populating>>
    ELSE LET overlay == [mid |-> FreshMid, song |-> song,
                         songArtist |-> SongArtist(artist), list |-> Blank]
             appended == Append(overlays, overlay)
         IN /\ IF api = "none"
               THEN /\ overlays' = SetFirstContainer(appended,
                                        PopulatePlaylistListFromRedux(state, reduxThrows))
                    /\ UNCHANGED populating
               ELSE /\ Len(populating) < MaxPending
                    /\ overlays' = appended
                    /\ populating' = Append(populating, appended[1].mid)
            /\ UNCHANGED toasts

\* the timer callback from the settling of MediaItem.fromId to its end
ResolveDone(i, fromId, hasTitle, title, artist, api, reduxThrows) ==
    /\ i \in 1..Len(resolving)
    /\ resolving' = RemoveAt(resolving, i)
    /\ clickHandled' = TRUE
    /\ CASE fromId = "null" ->
              /\ CanToast
              /\ toasts' = Append(toasts,
                    ShowNotification(Plain("Could not load song information"), "error"))
              /\ UNCHANGED <<overlays, populating>>
         [] fromId = "throws" ->
              /\ CanToast
              /\ toasts' = Append(toasts,
                    ShowNotification(Plain("Error loading song information"), "error"))
              /\ UNCHANGED <<overlays, populating>>
         [] OTHER ->
              ShowPlaylistSelector([id |-> resolving[i].id, hasTitle |-> hasTitle],
                                   title, artist, api, reduxThrows)
    /\ UNCHANGED <<state, contextMenuSongId, contextMenuContentType, menuOpen, timers,
                   runs, lastRun>>

\* what the host can answer one resolution with: MediaItem.fromId yields
\* nothing, throws, or yields an item; the item's title accessor is absent, or
\* resolves or throws when called; the artist lookup and the Playlist API probe
\* are reached only past the title
ResolveOutcomes ==
    [fromId : {"null", "throws"}, hasTitle : {TRUE}, title : {"ok"}, artist : {"named"},
     api : {"none"}, reduxThrows : {FALSE}]
    \cup [fromId : {"item"}, hasTitle : {TRUE}, title : {"throws"}, artist : {"named"},
          api : {"none"}, reduxThrows : {FALSE}]
    \cup [fromId : {"item"}, hasTitle : BOOLEAN, title : {"ok"},
          artist : {"named", "unnamed", "throws"},
          api : {"getUserPlaylists", "getMyPlaylists"}, reduxThrows : {FALSE}]
    \cup [fromId : {"item"}, hasTitle : BOOLEAN, title : {"ok"},
          artist : {"named", "unnamed", "throws"}, api : {"none"}, reduxThrows : BOOLEAN]

SongResolved ==
    \E i \in 1..Len(resolving), r \in ResolveOutcomes :
        ResolveDone(i, r.fromId, r.hasTitle, r.title, r.artist, r.api, r.reduxThrows)

\* populatePlaylistList from the settling of the awaited Playlist method on.
\* result: "array" of n playlists, "notArray", or "throws"
PopulateResume(i, result, n, reduxThrows) ==
    /\ i \in 1..Len(populating)
    /\ populating' = RemoveAt(populating, i)
    /\ overlays' = IF result = "throws"
                   THEN SetFirstContainer(overlays,
                            PopulatePlaylistListFromRedux(state, reduxThrows))
                   ELSE SetContainerOf(overlays, populating[i], RenderApiResult(result, n))
    /\ UNCHANGED <<state, contextMenuSongId, contextMenuContentType, menuOpen, timers,
                   resolving, runs, toasts, clickHandled, lastRun>>

PlaylistApiSettled ==
    \E i \in 1..Len(populating) :
        \/ \E n \in 0..MaxStore : PopulateResume(i, "array", n, FALSE)
        \/ PopulateResume(i, "notArray", 0, FALSE)
        \/ \E reduxThrows \in BOOLEAN : PopulateResume(i, "throws", 0, reduxThrows)

\* the user ticks or unticks checkbox j of overlay o
ToggleCheckbox(o, j) ==
    /\ o \in 1..Len(overlays)
    /\ j \in 1..Len(overlays[o].list.items)
    /\ overlays' = [overlays EXCEPT ![o].list.checked =
                        IF j \in @ THEN @ \ {j} ELSE @ \cup {j}]
    /\ UNCHANGED <<state, contextMenuSongId, contextMenuContentType, menuOpen, timers,
                   resolving, populating, runs, toasts, clickHandled, lastRun>>

CheckboxToggled == \E o \in 1..Len(overlays), j \in 1..MaxStore : ToggleCheckbox(o, j)

\* Cancel, or a click on the overlay outside the modal body
Dismiss(o) ==
    /\ o \in 1..Len(overlays)
    /\ overlays' = RemoveAt(overlays, o)
    /\ UNCHANGED <<state, contextMenuSongId, contextMenuContentType, menuOpen, timers,
                   resolving, populating, runs, toasts, clickHandled, lastRun>>

ModalDismissed == \E o \in 1..Len(overlays) : Dismiss(o)

\* ------------------------------------------------------------ bulk-add operation
\* the playlist ids of the checked boxes of one container, in document order
CheckedIds(c) ==
    LET idx == SelectSeq([j \in 1..Len(c.items) |-> j], LAMBDA j : j \in c.checked)
    IN [k \in 1..Len(idx) |-> c.items[idx[k]]]

\* document.querySelectorAll('#playlist-list input[type="checkbox"]:checked')
\* mapped to dataset.playlistId: every matching element of the document
RECURSIVE QuerySelectorAllChecked(_)
QuerySelectorAllChecked(ovs) ==
    IF ovs = <<>> THEN <<>>
    ELSE CheckedIds(Head(ovs).list) \o QuerySelectorAllChecked(Tail(ovs))

\* the loop with its try/catch around the loop instead of inside it: the
\* first command that throws ends it
RECURSIVE AddLoopAbort(_, _, _, _)
AddLoopAbort(ids, k, threw, acc) ==
    IF k > Len(ids) THEN acc
    ELSE LET sent == [acc EXCEPT !.issued = Append(@, ids[k])]
         IN IF k \in threw
            THEN [sent EXCEPT !.errorCount = @ + 1]
            ELSE AddLoopAbort(ids, k + 1, threw, [sent EXCEPT !.successCount = @ + 1])

\* the for loop over selectedPlaylistIds from position k on; threw is the set
\* of positions whose add command throws
RECURSIVE AddLoop(_, _, _, _)
AddLoop(ids, k, threw, acc) ==
    IF k > Len(ids) THEN acc
    ELSE LET sent == [acc EXCEPT !.issued = Append(@, ids[k])]
         IN AddLoop(ids, k + 1, threw,
                    IF k \in threw
                    THEN [sent EXCEPT !.errorCount = @ + 1]
                    ELSE [sent EXCEPT !.successCount = @ + 1])

\* a run as it starts: nothing issued, both counters 0
StartRun(selected, own, title, threw) ==
    [selected |-> selected, own |-> own, issued |-> <<>>, threw |-> threw,
     successCount |-> 0, errorCount |-> 0, notes |-> <<>>, title |-> title, done |-> TRUE]

\* addToSelectedPlaylists from the try block to its end: the finished run.
\* title is "absent" (song.title undefined), "ok" or "throws"
BulkAdd(selected, own, title, threw) ==
    IF title = "throws"
    THEN [StartRun(selected, own, title, {}) EXCEPT !.notes =
             <<ShowNotification(Plain("Error adding song to playlists"), "error")>>]
    ELSE LET end == AddLoop(selected, 1, threw, StartRun(selected, own, title, threw))
         IN IF end.errorCount > 0
            THEN [end EXCEPT !.notes = <<ShowNotification(
                                 Summary(end.successCount, end.errorCount), "error")>>]
            ELSE end

\* the empty-selection guard without its notification
RejectEmptySilent(own) == StartRun(<<>>, own, "none", {})

\* the empty-selection guard: the run that ends at the early return
RejectEmpty(own) ==
    [StartRun(<<>>, own, "none", {}) EXCEPT !.notes =
        <<ShowNotification(Plain("Please select at least one playlist"), "error")>>]

\* the Add button's click listener: addToSelectedPlaylists up to its first
\* await (or to its end when it has none), then removal of the overlay
AddClick(o, threw) ==
    /\ o \in 1..Len(overlays)
    /\ LET selectedPlaylistIds == QuerySelectorAllChecked(overlays)
           own == CheckedIds(overlays[o].list)
           song == overlays[o].song
       IN /\ threw \subseteq 1..Len(selectedPlaylistIds)
          /\ IF Len(selectedPlaylistIds) = 0
             THEN /\ lastRun' = RejectEmpty(own)
                  /\ toasts' = toasts \o lastRun'.notes
                  /\ UNCHANGED runs
             ELSE IF ~song.hasTitle
             THEN /\ lastRun' = BulkAdd(selectedPlaylistIds, own, "absent", threw)
                  /\ toasts' = toasts \o lastRun'.notes
                  /\ UNCHANGED runs
             ELSE /\ threw = {}
                  /\ Len(runs) < MaxPending
                  /\ runs' = Append(runs, [selected |-> selectedPlaylistIds, own |-> own])
                  /\ UNCHANGED <<toasts, lastRun>>
    /\ Len(toasts') <= MaxToasts
    /\ overlays' = RemoveAt(overlays, o)
    /\ UNCHANGED <<state, contextMenuSongId, contextMenuContentType, menuOpen, timers,
                   resolving, populating, clickHandled>>

AddClicked ==
    \E o \in 1..Len(overlays), threw \in SUBSET (1..Len(QuerySelectorAllChecked(overlays))) :
        AddClick(o, threw)

\* addToSelectedPlaylists from the settling of song.title() to its end
BulkResume(i, title, threw) ==
    /\ i \in 1..Len(runs)
    /\ threw \subseteq 1..Len(runs[i].selected)
    /\ title = "throws" => threw = {}
    /\ runs' = RemoveAt(runs, i)
    /\ lastRun' = BulkAdd(runs[i].selected, runs[i].own, title, threw)
    /\ toasts' = toasts \o lastRun'.notes
    /\ Len(toasts') <= MaxToasts
    /\ UNCHANGED <<state, contextMenuSongId, contextMenuContentType, menuOpen, timers,
                   resolving, overlays, populating, clickHandled>>

TitleSettled ==
    \E i \in 1..Len(runs), title \in {"ok", "throws"} :
        \E threw \in SUBSET (1..Len(runs[i].selected)) : BulkResume(i, title, threw)

\* the removal timers of showNotification: the oldest element leaves first
DismissToast ==
    /\ toasts # <<>>
    /\ toasts' = Tail(toasts)
    /\ UNCHANGED <<state, contextMenuSongId, contextMenuContentType, menuOpen, timers,
                   resolving, overlays, populating, runs, clickHandled, lastRun>>

\* ------------------------------------------------------------ specifications
\* the whole plugin
Next ==
    \/ MenuOpened
    \/ ButtonClick
    \/ TimerFire
    \/ SongResolved
    \/ PlaylistApiSettled
    \/ CheckboxToggled
    \/ ModalDismissed
    \/ AddClicked
    \/ TitleSettled
    \/ DismissToast

Spec == Init /\ [][Next]_vars

\* the context-menu integration up to the opened modal: no checkbox is ticked
\* and Add is never clicked
NextMenu ==
    \/ MenuOpened
    \/ ButtonClick
    \/ TimerFire
    \/ SongResolved
    \/ PlaylistApiSettled
    \/ ModalDismissed
    \/ DismissToast

SpecMenu == Init /\ [][NextMenu]_vars

\* a modal as showPlaylistSelector leaves it when populatePlaylistList is
\* suspended on the Playlist API
PendingOverlay(mid, song) ==
    [mid |-> mid, song |-> song, songArtist |-> SongArtist("named"), list |-> Blank]

\* the playlist source adapter over every snapshot: one modal is open and its
\* populatePlaylistList call awaits the Playlist API
InitAdapter ==
    /\ state \in Snapshots
    /\ contextMenuSongId = "s1"
    /\ contextMenuContentType = "track"
    /\ menuOpen = FALSE
    /\ timers = <<>>
    /\ resolving = <<>>
    /\ overlays = <<PendingOverlay(1, [id |-> "s1", hasTitle |-> TRUE])>>
    /\ populating = <<1>>
    /\ runs = <<>>
    /\ toasts = <<>>
    /\ clickHandled = TRUE
    /\ lastRun = NoRun

NextAdapter ==
    \/ PlaylistApiSettled
    \/ CheckboxToggled

SpecAdapter == InitAdapter /\ [][NextAdapter]_vars

\* the bulk-add operation over every selection: the first modal of the document
\* lists n playlists with any boxes ticked, and up to MaxFlows - 1 modals opened
\* after it are open too (their containers were never written)
InitBulk ==
    /\ state = CHOOSE st \in WorkflowSnapshots : st.userId = "u1"
    /\ contextMenuSongId = "s1"
    /\ contextMenuContentType = "track"
    /\ menuOpen = FALSE
    /\ timers = <<>>
    /\ resolving = <<>>
    /\ \E n \in 0..MaxStore, later \in 0..(MaxFlows - 1), titled \in [1..MaxFlows -> BOOLEAN] :
          overlays = [k \in 1..(1 + later) |->
             IF k = 1
             THEN [PendingOverlay(1, [id |-> "s1", hasTitle |-> titled[1]])
                      EXCEPT !.list = RenderApiResult("array", n)]
             ELSE PendingOverlay(k, [id |-> "s2", hasTitle |-> titled[k]])]
    /\ populating = <<>>
    /\ runs = <<>>
    /\ toasts = <<>>
    /\ clickHandled = TRUE
    /\ lastRun = NoRun

NextBulk ==
    \/ CheckboxToggled
    \/ AddClicked
    \/ TitleSettled
    \/ ModalDismissed
    \/ DismissToast

SpecBulk == InitBulk /\ [][NextBulk]_vars

\* ------------------------------------------------------------------ claims
\* C1: whatever the snapshot and the user id, a container written by the
\* fallback path lists only store entries whose type is 'USER' and whose
\* creator id is the session user id, and lists nothing when the user id is
\* absent.
C1_FallbackListsOnlyOwnPlaylists ==
    \A k \in 1..Len(overlays) :
        LET c == overlays[k].list
        IN c.via = "redux" =>
             /\ \A j \in 1..Len(c.items) :
                   /\ state.hasContent
                   /\ c.items[j] \in 1..Len(state.playlists)
                   /\ state.playlists[c.items[j]].type = "USER"
                   /\ state.playlists[c.items[j]].creator = state.userId
             /\ state.userId \in {Undefined, Null} => c.items = <<>>

\* the fallback path listed some entries of a store and left others out
C1_Witness ==
    \E k \in 1..Len(overlays) :
        /\ overlays[k].list.via = "redux"
        /\ overlays[k].list.items # <<>>
        /\ Len(overlays[k].list.items) < Len(state.playlists)

\* C2: a finished run over a non-empty selection whose title resolved issued
\* exactly the selected playlist ids, in their order, whichever commands
\* threw; succeeded + failed is the number selected and failed is the number
\* of commands that threw.
C2_OneCommandPerCheckedPlaylist ==
    (lastRun.done /\ lastRun.selected # <<>> /\ lastRun.title # "throws") =>
        /\ lastRun.issued = lastRun.selected
        /\ lastRun.successCount + lastRun.errorCount = Len(lastRun.selected)
        /\ lastRun.errorCount = Cardinality(lastRun.threw)

\* three playlists were selected and the command for the second one threw
C2_Witness ==
    /\ lastRun.done
    /\ Len(lastRun.selected) = 3
    /\ lastRun.threw = {2}
    /\ Len(lastRun.issued) = 3

\* C3: a run started with no box ticked issues no add command, does not call
\* the title accessor, and shows exactly the 'Please select at least one
\* playlist' notification.
C3_EmptySelectionRejected ==
    (lastRun.done /\ lastRun.selected = <<>>) =>
        /\ lastRun.issued = <<>>
        /\ lastRun.title = "none"
        /\ lastRun.notes =
              <<ShowNotification(Plain("Please select at least one playlist"), "error")>>

\* Add was clicked with nothing ticked
C3_Witness == lastRun.done /\ lastRun.selected = <<>> /\ Len(lastRun.notes) = 1

\* C4: a finished run over a non-empty selection shows at most one
\* notification: none when no add command failed, exactly one of severity
\* error when a command failed.
C4_SilentSuccessOneErrorToast ==
    (lastRun.done /\ lastRun.selected # <<>>) =>
        /\ Len(lastRun.notes) <= 1
        /\ lastRun.errorCount = 0 => lastRun.notes = <<>>
        /\ lastRun.errorCount > 0 =>
              Len(lastRun.notes) = 1 /\ lastRun.notes[1].type = "error"

\* C5: once a click has been handled (and until the next successful
\* capture) no identity is held, so that a further click finds none.
C5_CapturedIdentityIsSingleUse == clickHandled => contextMenuSongId = Null

\* C6: after a menu-open event that yields no identity (payload absent, empty
\* collection, or iteration throwing) no identity is held.
C6_FailedExtractionLeavesIdle ==
    [][\A kind \in {"absent", "empty", "throws"} :
          OnMediaItem(kind, NoItem) => contextMenuSongId' = Null]_vars

\* C7: a run whose title accessor failed still issues the add command of
\* every selected playlist.
C7_TitleFailureIsNotFatal ==
    (lastRun.done /\ lastRun.title = "throws") => lastRun.issued = lastRun.selected

\* C7, the part about the modal: a resolution whose title accessor failed
\* still appends a modal.  (Violated under SpecMenu: the rejection is caught
\* by the click callback, which shows 'Error loading song information'.)
C7_TitleFailureStillOpensModal ==
    [][\A i \in 1..Len(resolving) :
          ResolveDone(i, "item", TRUE, "throws", "named", "none", FALSE) =>
              Len(overlays') = Len(overlays) + 1]_vars

\* C8: a container that a populate call has written and that lists no
\* playlist shows a message.
C8_NoPlaylistsShowsMessage ==
    \A k \in 1..Len(overlays) :
        LET c == overlays[k].list
        IN (c.via # "none" /\ c.items = <<>>) => c.text # ""

\* C9: the identity a timer callback passes to the resolution call is the
\* identity that was held when its click was made.
C9_ResolvesIdentityHeldAtClick ==
    [][(TimerFire /\ resolving' # resolving) =>
          /\ contextMenuSongId = Head(timers).sid
          /\ contextMenuContentType = Head(timers).ctype]_vars

\* C10: every add command of a run is for a playlist ticked in the modal
\* whose Add button started the run.
C10_SelectionIsPerModal ==
    lastRun.done =>
        \A k \in 1..Len(lastRun.issued) :
            \E j \in 1..Len(lastRun.own) : lastRun.own[j] = lastRun.issued[k]

====
